---------------------------- MODULE Spec2Model ----------------------------
(***************************************************************************)
(* Model of the DynamicsDoctor loudness-range status machine               *)
(* (Source/PluginProcessor.cpp, Source/LoudnessMeter.cpp,                  *)
(* Source/Constants.h).                                                    *)
(*                                                                         *)
(* Units.  LRA values and thresholds are in tenths of a LU (4.8 LU = 48);  *)
(* magnitudes are in units of 0.00001 (the presence threshold is 1);      *)
(* peak levels are in whole dB.  Sample rates are whole samples per        *)
(* second, scaled down so that a measuring period fits the model.          *)
(***************************************************************************)
EXTENDS Integers, Sequences, FiniteSets, TLC

VARIABLES
    internalSampleRate,         \* double internalSampleRate
    samplesUntilLraUpdate,      \* int samplesUntilLraUpdate
    samplesProcessedSinceReset, \* std::atomic<int> samplesProcessedSinceReset
    currentPeak,                \* std::atomic<float> currentPeak
    currentGlobalLRA,           \* std::atomic<float> currentGlobalLRA
    currentStatus,              \* std::atomic<DynamicsStatus> currentStatus
    presetParam,                \* raw value of the "preset" parameter
    peakParam,                  \* raw value of the "peak" parameter
    lraParam,                   \* raw value of the "lra" parameter
    resetLra,                   \* value of the "resetLra" AudioParameterBool
    loudnessMeter,              \* LoudnessMeter: engine handle, format, cache, engine frames
    lastOp,                     \* observer: the operation that produced this state
    scenario,                   \* observer: audio-only run since prepareToPlay
    silence,                    \* observer: samples of the silent run in a settled status
    meterCall,                  \* observer: the last call made on the LoudnessMeter alone
    audioThread,                \* the audio thread inside processBlock: position and locals
    trafficLight                \* TrafficLightComponent: status, pending repaint, what is on screen

vars == << internalSampleRate, samplesUntilLraUpdate,
           samplesProcessedSinceReset, currentPeak, currentGlobalLRA,
           currentStatus, presetParam, peakParam, lraParam, resetLra,
           loudnessMeter, lastOp, scenario, silence, meterCall, audioThread,
           trafficLight >>

-----------------------------------------------------------------------------
(* Bounds of the model *)

MaxSampleRate == 2      \* sample rates 1..MaxSampleRate
MaxBlockSize == 1       \* block sizes 0..MaxBlockSize
MaxEngineFrames == 1    \* the engine's history is counted up to this many frames

-----------------------------------------------------------------------------
(* Floating-point values outside the finite range *)

NaN == -999999
PosInf == 999999
NegInf == -999998

isnan(x) == x = NaN
isinf(x) == x = PosInf \/ x = NegInf

\* IEEE comparison: every comparison with NaN is false
FloatLess(a, b) == ~isnan(a) /\ ~isnan(b) /\ a < b

Max(a, b) == IF a >= b THEN a ELSE b

-----------------------------------------------------------------------------
(* Source/Constants.h *)

Ok == "Ok"
Reduced == "Reduced"
Loss == "Loss"
Bypassed == "Bypassed"
Measuring == "Measuring"

DynamicsStatus == { Ok, Reduced, Loss, Bypassed, Measuring }

\* Variant of the preset table: the first preset's amber threshold is below
\* its red threshold and its target range is empty
presets_Disordered == <<
    [ id |-> "edm",       lraThresholdRed |-> 36, lraThresholdAmber |-> 30,
      targetLraMin |-> 80, targetLraMax |-> 30 ],
    [ id |-> "pop_rock",  lraThresholdRed |-> 40, lraThresholdAmber |-> 48,
      targetLraMin |-> 40, targetLraMax |-> 90 ],
    [ id |-> "classical", lraThresholdRed |-> 60, lraThresholdAmber |-> 72,
      targetLraMin |-> 60, targetLraMax |-> 220 ] >>

presets == <<
    [ id |-> "edm",       lraThresholdRed |-> 30, lraThresholdAmber |-> 36,
      targetLraMin |-> 30, targetLraMax |-> 80 ],
    [ id |-> "pop_rock",  lraThresholdRed |-> 40, lraThresholdAmber |-> 48,
      targetLraMin |-> 40, targetLraMax |-> 90 ],
    [ id |-> "classical", lraThresholdRed |-> 60, lraThresholdAmber |-> 72,
      targetLraMin |-> 60, targetLraMax |-> 220 ] >>

\* preset indices are 0-based in the program
presetAt(i) == presets[i + 1]
presetsSize == Len(presets)

ParameterDefaults_preset == 1
ParameterDefaults_peak == -100
ParameterDefaults_lra == 0
ParameterDefaults_LRA_MEASURING_DURATION == 6


-----------------------------------------------------------------------------
(* Source/PluginProcessor.cpp and PluginProcessor.h: constants *)

\* static const float LRA_MEASURING_DURATION_SECONDS at file scope
File_LRA_MEASURING_DURATION_SECONDS == 12
\* static constexpr double DynamicsDoctorProcessor::LRA_MEASURING_DURATION_SECONDS
Class_LRA_MEASURING_DURATION_SECONDS == 15
\* static constexpr double DynamicsDoctorProcessor::AUDIO_TIMEOUT
AUDIO_TIMEOUT == 30

\* The unqualified name LRA_MEASURING_DURATION_SECONDS inside the member
\* function processBlock: class scope is searched before namespace scope, so
\* the static member of the class hides the file-scope constant.
LRA_MEASURING_DURATION_SECONDS == Class_LRA_MEASURING_DURATION_SECONDS

nullptr == "nullptr"
\* Variant of bypassParam: the pointer is assigned and the parameter is on
bypassParam_Assigned == "true"

\* std::atomic<float>* bypassParam = nullptr; its assignment in the
\* constructor is commented out, so the pointer stays null.
bypassParam == nullptr

\* BusesProperties: stereo input and stereo output
totalNumChannels == 2

DefaultSampleRate == 44100
DefaultNumChannels == 2
DefaultBlockSize == 512

\* if (buffer.getMagnitude(...) > 0.00001f), in units of 0.00001
PresenceThreshold == 1

-----------------------------------------------------------------------------
(* Inputs *)

SampleRates == 1..MaxSampleRate

\* Channel magnitudes of a stereo buffer (0: digital silence, 1: exactly the
\* presence threshold, 100000: full scale): silent, at the threshold on the
\* left, audio on the right only
ChannelMagnitudes == { <<0, 0>>, <<1, 0>>, <<0, 100000>> }

\* An audio buffer: its sample count and the magnitude of each channel.
\* A buffer without samples has magnitude 0 on every channel.
Buffers ==
    { b \in [ numSamples : 0..MaxBlockSize, mag : ChannelMagnitudes ] :
        b.numSamples = 0 => \A ch \in 1..Len(b.mag) : b.mag[ch] = 0 }

\* What ebur128_loudness_range hands back: an error, or a value
\* (err is the return code, value what it stores through the out pointer)
\* over the values: a negative one, 3.0 LU and 10.0 LU
EngineLRAValues == {-50, 30, 100}
EngineFailure == [ err |-> 1, value |-> 0 ]
EngineResultsOver(values) ==
    { EngineFailure } \cup { [ err |-> 0, value |-> v ] : v \in values }
EngineResults == EngineResultsOver(EngineLRAValues)

\* juce::Decibels::gainToDecibels(gain, -infinity) on the modelled magnitudes:
\* gain > 0 ? max(minusInfinityDb, 20 log10(gain)) : minusInfinityDb
gainToDecibels(gain) ==
    IF gain > 0
    THEN (IF gain = 1 THEN -100 ELSE 0)
    ELSE NegInf

\* The audio thread inside processBlock: where it is (pc), the buffer of the
\* call (numSamples, mag), the local newLRA, and two observers: the handle of
\* the last engine call of the block ("none" if it made none) and whether a
\* reset ran on the message thread after the block's poll
AudioThread(pc, numSamples, mag, newLRA, engineCall, resetAfterPoll) ==
    [ pc |-> pc, numSamples |-> numSamples, mag |-> mag, newLRA |-> newLRA,
      engineCall |-> engineCall, resetAfterPoll |-> resetAfterPoll ]

\* The audio thread outside processBlock
AudioIdle == AudioThread("idle", 0, <<0, 0>>, 0, "none", FALSE)

\* Nothing painted yet
NotPainted == [ status |-> "-", Loss |-> "-", Reduced |-> "-", Ok |-> "-" ]

\* TrafficLightComponent as constructed: DynamicsStatus currentStatus =
\* DynamicsStatus::Bypassed, no bounds set
TrafficLight_Init ==
    [ currentStatus |-> Bypassed, height |-> 0, width |-> 0,
      repaint |-> FALSE, painted |-> NotPainted ]

-----------------------------------------------------------------------------
(* Source/LoudnessMeter.cpp.  The meter is the record                      *)
(*   state: "null" or "live" (the ebur128_state handle),                   *)
(*   currentNumChannels, currentSampleRate, lastLRA,                       *)
(*   frames: the frames the live engine instance has been fed, counted up  *)
(*   to MaxEngineFrames ("MaxEngineFrames or more").                       *)

\* lastShortTermLUFS = -144.0f, lastMomentaryLUFS = -144.0f
ResetLUFS == -144
\* (lufs < -140.0) ? -infinity : lufs
SilenceFloorLUFS == -140

\* What the three queries have to fall back on after reset()
GoodAfterReset ==
    [ shortTerm |-> ResetLUFS, momentary |-> ResetLUFS, range |-> 0 ]

\* The observer of the calls made on the meter alone: the call (op), its
\* arguments (numSamples, numChannels), what the engine did (initOk; err and
\* value of the query), the value the call returned, the engine's value of the
\* last successful query of each kind since the last prepare or reset (good)
\* the channel count given to the last prepare (prepared) and the number of
\* floats the call allocated on the heap (allocated)
MeterCall(op, numSamples, numChannels, initOk, engine, returned, good, prepared) ==
    [ op |-> op, numSamples |-> numSamples, numChannels |-> numChannels,
      initOk |-> initOk, err |-> engine.err, value |-> engine.value,
      returned |-> returned, good |-> good, prepared |-> prepared,
      allocated |-> 0 ]

NoEngineCall == [ err |-> 0, value |-> 0 ]

\* No call made so far
NoCall == MeterCall("none", 0, 0, FALSE, NoEngineCall, 0, GoodAfterReset, 0)

LoudnessMeter_Init ==
    [ state |-> "null", currentNumChannels |-> 0, currentSampleRate |-> 0,
      lastShortTermLUFS |-> ResetLUFS, lastMomentaryLUFS |-> ResetLUFS,
      lastLRA |-> 0, frames |-> 0 ]

\* Variant of LoudnessMeter::reset that also discards the engine's history
LoudnessMeter_reset_DiscardsHistory(m) ==
    [ m EXCEPT !.lastShortTermLUFS = ResetLUFS, !.lastMomentaryLUFS = ResetLUFS,
               !.lastLRA = 0, !.frames = 0 ]

\* void LoudnessMeter::reset()
LoudnessMeter_reset(m) ==
    [ m EXCEPT !.lastShortTermLUFS = ResetLUFS, !.lastMomentaryLUFS = ResetLUFS,
               !.lastLRA = 0 ]

\* void LoudnessMeter::prepare(sampleRate, numChannels, maxSamplesPerBlock);
\* initOk is whether ebur128_init returns a handle
LoudnessMeter_prepare(m, sampleRate, numChannels, initOk) ==
    LET destroyed == [ m EXCEPT !.state = "null", !.frames = 0,
                                !.currentSampleRate = sampleRate,
                                !.currentNumChannels = numChannels ]
    IN  IF ~initOk
        THEN destroyed
        ELSE LoudnessMeter_reset([ destroyed EXCEPT !.state = "live" ])

\* Variant of LoudnessMeter::processBlock without the check of the engine
\* handle and of the sample count
LoudnessMeter_processBlock_Unguarded(m, numSamples, numChannels) ==
    IF numChannels # m.currentNumChannels
    THEN m
    ELSE [ m EXCEPT !.frames = IF @ + numSamples > MaxEngineFrames
                               THEN MaxEngineFrames
                               ELSE @ + numSamples ]

\* Variant of LoudnessMeter::processBlock without the check of the channel
\* count
LoudnessMeter_processBlock_AnyChannels(m, numSamples, numChannels) ==
    IF m.state = "null" \/ numSamples = 0
    THEN m
    ELSE [ m EXCEPT !.frames = IF @ + numSamples > MaxEngineFrames
                               THEN MaxEngineFrames
                               ELSE @ + numSamples ]

\* void LoudnessMeter::processBlock(buffer)
LoudnessMeter_processBlock(m, numSamples, numChannels) ==
    IF m.state = "null" \/ numSamples = 0
    THEN m
    ELSE IF numChannels # m.currentNumChannels
         THEN m
         ELSE [ m EXCEPT !.frames = IF @ + numSamples > MaxEngineFrames
                                    THEN MaxEngineFrames
                                    ELSE @ + numSamples ]

\* std::vector<float> interleavedData; interleavedData.resize(numFrames * numChans):
\* the number of floats LoudnessMeter::processBlock allocates for the block
\* (0: the call returns before the vector is constructed)
LoudnessMeter_processBlock_interleavedData(m, numSamples, numChannels) ==
    IF m.state = "null" \/ numSamples = 0
    THEN 0
    ELSE IF numChannels # m.currentNumChannels
         THEN 0
         ELSE numSamples * m.currentNumChannels

\* Variant of LoudnessMeter::getLoudnessRange that clamps a negative value to 0
LoudnessMeter_getLoudnessRange_Clamped(m, engine) ==
    IF m.state = "null"
    THEN [ value |-> 0, meter |-> m ]
    ELSE IF engine.err = 0
         THEN [ value |-> Max(0, engine.value),
                meter |-> [ m EXCEPT !.lastLRA = Max(0, engine.value) ] ]
         ELSE [ value |-> m.lastLRA, meter |-> m ]

\* float LoudnessMeter::getLoudnessRange() const: the value returned and the
\* meter with its (mutable) cache after the call
LoudnessMeter_getLoudnessRange(m, engine) ==
    IF m.state = "null"
    THEN [ value |-> 0, meter |-> m ]
    ELSE IF engine.err = 0
         THEN [ value |-> engine.value,
                meter |-> [ m EXCEPT !.lastLRA = engine.value ] ]
         ELSE [ value |-> m.lastLRA, meter |-> m ]

\* (lufs < -140.0) ? -infinity : lufs
FloorLUFS(lufs) ==
    IF lufs = NegInf \/ FloatLess(lufs, SilenceFloorLUFS) THEN NegInf ELSE lufs

\* Variant of LoudnessMeter::getShortTermLoudness that caches the value it
\* returns instead of the engine's
LoudnessMeter_getShortTermLoudness_CachesReturned(m, engine) ==
    IF m.state = "null"
    THEN [ value |-> NegInf, meter |-> m ]
    ELSE IF engine.err = 0
         THEN [ value |-> FloorLUFS(engine.value),
                meter |-> [ m EXCEPT !.lastShortTermLUFS = FloorLUFS(engine.value) ] ]
         ELSE [ value |-> m.lastShortTermLUFS, meter |-> m ]

\* float LoudnessMeter::getShortTermLoudness() const: the value returned and
\* the meter with its cache after the call
LoudnessMeter_getShortTermLoudness(m, engine) ==
    IF m.state = "null"
    THEN [ value |-> NegInf, meter |-> m ]
    ELSE IF engine.err = 0
         THEN [ value |-> FloorLUFS(engine.value),
                meter |-> [ m EXCEPT !.lastShortTermLUFS = engine.value ] ]
         ELSE [ value |-> m.lastShortTermLUFS, meter |-> m ]

\* float LoudnessMeter::getMomentaryLoudness() const
LoudnessMeter_getMomentaryLoudness(m, engine) ==
    IF m.state = "null"
    THEN [ value |-> NegInf, meter |-> m ]
    ELSE IF engine.err = 0
         THEN [ value |-> FloorLUFS(engine.value),
                meter |-> [ m EXCEPT !.lastMomentaryLUFS = engine.value ] ]
         ELSE [ value |-> m.lastMomentaryLUFS, meter |-> m ]

-----------------------------------------------------------------------------
(* Source/PluginProcessor.cpp: DynamicsDoctorProcessor *)

\* Variant of StatusForLRA: the amber threshold compared with <= instead of <
StatusForLRA_InclusiveAmber(measuredLRA, presetIndex) ==
    LET selectedPreset ==
            presetAt(IF presetIndex >= 0 /\ presetIndex < presetsSize
                     THEN presetIndex ELSE ParameterDefaults_preset)
    IN  IF FloatLess(measuredLRA, selectedPreset.lraThresholdRed)
        THEN Loss
        ELSE IF ~FloatLess(selectedPreset.lraThresholdAmber, measuredLRA)
             THEN Reduced
             ELSE Ok

\* Variant of StatusForLRA: an LRA of 0 is taken as "no measurement yet"
StatusForLRA_ZeroIsMeasuring(measuredLRA, presetIndex) ==
    LET selectedPreset ==
            presetAt(IF presetIndex >= 0 /\ presetIndex < presetsSize
                     THEN presetIndex ELSE ParameterDefaults_preset)
    IN  IF measuredLRA = 0
        THEN Measuring
        ELSE IF FloatLess(measuredLRA, selectedPreset.lraThresholdRed)
             THEN Loss
             ELSE IF FloatLess(measuredLRA, selectedPreset.lraThresholdAmber)
                  THEN Reduced
                  ELSE Ok

\* Variant of validPresetIndex: an index out of range falls back to the
\* first preset
validPresetIndex_FirstPreset(presetIndex) ==
    IF presetIndex >= 0 /\ presetIndex < presetsSize THEN presetIndex ELSE 0

\* const int validPresetIndex = (presetIndex >= 0 && presetIndex < presets.size())
\*                              ? presetIndex : ParameterDefaults::preset
validPresetIndex(presetIndex) ==
    IF presetIndex >= 0 /\ presetIndex < presetsSize
    THEN presetIndex
    ELSE ParameterDefaults_preset

\* The status updateStatusBasedOnLRA(measuredLRA) stores, for the raw preset
\* parameter value presetIndex
StatusForLRA(measuredLRA, presetIndex) ==
    LET selectedPreset == presetAt(validPresetIndex(presetIndex))
    IN  IF FloatLess(measuredLRA, selectedPreset.lraThresholdRed)
        THEN Loss
        ELSE IF FloatLess(measuredLRA, selectedPreset.lraThresholdAmber)
             THEN Reduced
             ELSE Ok

\* void updateStatusBasedOnLRA(float measuredLRA): the new currentStatus
\* (presetParam is assigned in the constructor and is never null)
updateStatusBasedOnLRA(measuredLRA) == StatusForLRA(measuredLRA, presetParam)

\* The observer of the last operation: its name; for processBlock the buffer
\* it was given, whether it polled the LRA and, if it changed a settled
\* status, that status; for the others the status they started from; for
\* the reset trigger whether the operation before it was the reset trigger too
OpRecord(op, from, numSamples, mag, fired) ==
    [ op |-> op, from |-> from, numSamples |-> numSamples, mag |-> mag,
      fired |-> fired, repeat |-> FALSE ]
PlainOp(op) == OpRecord(op, currentStatus, 0, <<0, 0>>, FALSE)

\* The silence observer is off
NoSilence == -1
\* The silence observer after an operation other than processBlock
SilenceAfterOp == IF silence = NoSilence THEN NoSilence ELSE 0

NoScenario == [ samples |-> -1, lra |-> 0 ]
AnyLRA == -1

Init ==
    /\ internalSampleRate = 0
    /\ samplesUntilLraUpdate = 0
    /\ samplesProcessedSinceReset = 0
    /\ currentPeak = ParameterDefaults_peak
    /\ currentGlobalLRA = 0
    /\ currentStatus = Measuring
    /\ presetParam = ParameterDefaults_preset
    /\ peakParam = ParameterDefaults_peak
    /\ lraParam = ParameterDefaults_lra
    /\ resetLra = FALSE
    /\ loudnessMeter = LoudnessMeter_Init
    /\ lastOp = PlainOp("constructor")
    /\ scenario = NoScenario
    /\ silence = NoSilence
    /\ meterCall = NoCall
    /\ audioThread = AudioIdle
    /\ trafficLight = TrafficLight_Init

\* Variant of prepareToPlay: the sample counter is not zeroed
prepareToPlay_KeepsCounter(newSampleRate, initOk) ==
    /\ internalSampleRate' = newSampleRate
    /\ loudnessMeter' = LoudnessMeter_prepare(loudnessMeter, newSampleRate,
                                              totalNumChannels, initOk)
    /\ currentPeak' = ParameterDefaults_peak
    /\ currentGlobalLRA' = 0
    /\ lraParam' = 0
    /\ samplesUntilLraUpdate' = 0
    /\ currentStatus' = Measuring
    /\ lastOp' = PlainOp("prepareToPlay")
    /\ scenario' = [ samples |-> 0, lra |-> AnyLRA ]
    /\ silence' = SilenceAfterOp
    /\ meterCall' = meterCall
    /\ audioThread' = audioThread
    /\ trafficLight' = trafficLight
    /\ UNCHANGED << samplesProcessedSinceReset, presetParam, peakParam, resetLra >>

\* void prepareToPlay(double newSampleRate, int samplesPerBlock)
prepareToPlay(newSampleRate, initOk) ==
    LET numChannelsForMeter ==
            IF totalNumChannels = 0 THEN DefaultNumChannels ELSE totalNumChannels
    IN  /\ internalSampleRate' = newSampleRate
        /\ loudnessMeter' = LoudnessMeter_prepare(loudnessMeter, newSampleRate,
                                                  numChannelsForMeter, initOk)
        /\ currentPeak' = ParameterDefaults_peak
        /\ currentGlobalLRA' = 0
        /\ lraParam' = 0
        /\ samplesProcessedSinceReset' = 0
        /\ samplesUntilLraUpdate' = 0
        /\ currentStatus' = Measuring
        /\ lastOp' = PlainOp("prepareToPlay")
        /\ scenario' = [ samples |-> 0, lra |-> AnyLRA ]
        /\ silence' = SilenceAfterOp
        /\ meterCall' = meterCall
        /\ audioThread' = audioThread
        /\ trafficLight' = trafficLight
        /\ UNCHANGED << presetParam, peakParam, resetLra >>

\* Variant of handleResetLRA: the cached LRA and the lra parameter are not zeroed
handleResetLRA_KeepsLRA(m, initOk) ==
    IF internalSampleRate <= 0
    THEN /\ loudnessMeter' = m
         /\ UNCHANGED << currentGlobalLRA, lraParam, samplesProcessedSinceReset,
                         samplesUntilLraUpdate, currentStatus >>
    ELSE /\ loudnessMeter' = LoudnessMeter_prepare(m, internalSampleRate,
                                                   totalNumChannels, initOk)
         /\ samplesProcessedSinceReset' = 0
         /\ samplesUntilLraUpdate' = 0
         /\ currentStatus' = Measuring
         /\ UNCHANGED << currentGlobalLRA, lraParam >>

\* Variant of handleResetLRA: a missing sample rate is replaced by the
\* default one instead of abandoning the call
handleResetLRA_NoAbort(m, initOk) ==
    /\ loudnessMeter' = LoudnessMeter_prepare(m,
                              IF internalSampleRate <= 0 THEN DefaultSampleRate
                                                         ELSE internalSampleRate,
                              totalNumChannels, initOk)
    /\ currentGlobalLRA' = 0
    /\ lraParam' = 0
    /\ samplesProcessedSinceReset' = 0
    /\ samplesUntilLraUpdate' = 0
    /\ currentStatus' = Measuring

\* Variant of handleResetLRA: the status is derived from the LRA cached
\* before the reset instead of being set to Measuring
handleResetLRA_StatusFromLRA(m, initOk) ==
    IF internalSampleRate <= 0
    THEN /\ loudnessMeter' = m
         /\ UNCHANGED << currentGlobalLRA, lraParam, samplesProcessedSinceReset,
                         samplesUntilLraUpdate, currentStatus >>
    ELSE /\ loudnessMeter' = LoudnessMeter_prepare(m, internalSampleRate,
                                                   totalNumChannels, initOk)
         /\ currentGlobalLRA' = 0
         /\ lraParam' = 0
         /\ samplesProcessedSinceReset' = 0
         /\ samplesUntilLraUpdate' = 0
         /\ currentStatus' = StatusForLRA(currentGlobalLRA, presetParam)

\* void handleResetLRA(), run on the meter m (the meter as the caller left
\* it); the caller fixes the variables handleResetLRA does not write
handleResetLRA(m, initOk) ==
    IF internalSampleRate <= 0
    THEN /\ loudnessMeter' = m
         /\ UNCHANGED << currentGlobalLRA, lraParam, samplesProcessedSinceReset,
                         samplesUntilLraUpdate, currentStatus >>
    ELSE LET numChannelsForMeter ==
                 IF totalNumChannels = 0 THEN DefaultNumChannels
                                         ELSE totalNumChannels
         IN  /\ loudnessMeter' = LoudnessMeter_prepare(m, internalSampleRate,
                                                       numChannelsForMeter, initOk)
             /\ currentGlobalLRA' = 0
             /\ lraParam' = 0
             /\ samplesProcessedSinceReset' = 0
             /\ samplesUntilLraUpdate' = 0
             /\ currentStatus' = Measuring

\* The meter after handleResetLRA has run on it
MeterAfterReset(m, initOk) ==
    IF internalSampleRate <= 0
    THEN m
    ELSE LoudnessMeter_prepare(m, internalSampleRate,
                               IF totalNumChannels = 0 THEN DefaultNumChannels
                                                       ELSE totalNumChannels,
                               initOk)

\* Variant of parameterChanged("resetLra", newValue): the parameter is not
\* written back to false after the reset
parameterChanged_resetLra_NoWriteBack(newValue, initOk) ==
    /\ IF newValue
       THEN handleResetLRA(loudnessMeter, initOk)
       ELSE UNCHANGED << loudnessMeter, currentGlobalLRA, lraParam,
                         samplesProcessedSinceReset, samplesUntilLraUpdate,
                         currentStatus >>
    /\ resetLra' = newValue
    /\ lastOp' = [ PlainOp(IF newValue THEN "resetLra" ELSE "resetLraFalse")
                      EXCEPT !.repeat = newValue /\ lastOp.op = "resetLra" ]
    /\ scenario' = NoScenario
    /\ silence' = SilenceAfterOp
    /\ meterCall' = meterCall
    /\ audioThread' = audioThread
    /\ trafficLight' = trafficLight
    /\ UNCHANGED << internalSampleRate, currentPeak,
                    presetParam, peakParam >>

\* parameterChanged("resetLra", newValue): the reset button sets the
\* parameter to true; the handler resets and writes the parameter back to
\* false, which re-enters parameterChanged with newValue = 0 (no action).
parameterChanged_resetLra(newValue, initOk) ==
    /\ IF newValue
       THEN /\ handleResetLRA(loudnessMeter, initOk)
            /\ resetLra' = FALSE
       ELSE /\ resetLra' = newValue
            /\ UNCHANGED << loudnessMeter, currentGlobalLRA, lraParam,
                            samplesProcessedSinceReset, samplesUntilLraUpdate,
                            currentStatus >>
    /\ lastOp' = [ PlainOp(IF newValue THEN "resetLra" ELSE "resetLraFalse")
                      EXCEPT !.repeat = newValue /\ lastOp.op = "resetLra" ]
    /\ scenario' = NoScenario
    /\ silence' = SilenceAfterOp
    /\ meterCall' = meterCall
    /\ audioThread' = audioThread
    /\ trafficLight' = trafficLight
    /\ UNCHANGED << internalSampleRate, currentPeak,
                    presetParam, peakParam >>

\* Variant of parameterChanged("preset", newValue): the new index is taken
\* over without a reset
parameterChanged_preset_NoReset(newValue, initOk) ==
    /\ presetParam' = newValue
    /\ lastOp' = PlainOp("presetChanged")
    /\ scenario' = NoScenario
    /\ silence' = SilenceAfterOp
    /\ meterCall' = meterCall
    /\ audioThread' = audioThread
    /\ trafficLight' = trafficLight
    /\ UNCHANGED << internalSampleRate, currentPeak, peakParam, resetLra,
                    loudnessMeter, currentGlobalLRA, lraParam,
                    samplesProcessedSinceReset, samplesUntilLraUpdate,
                    currentStatus >>

\* parameterChanged("preset", newValue): the parameter holds the new index
\* when the listener runs
parameterChanged_preset(newValue, initOk) ==
    /\ presetParam' = newValue
    /\ handleResetLRA(loudnessMeter, initOk)
    /\ lastOp' = PlainOp("presetChanged")
    /\ scenario' = NoScenario
    /\ silence' = SilenceAfterOp
    /\ meterCall' = meterCall
    /\ audioThread' = audioThread
    /\ trafficLight' = trafficLight
    /\ UNCHANGED << internalSampleRate, currentPeak,
                    peakParam, resetLra >>

\* void setCurrentProgram(int index)
setCurrentProgram ==
    /\ currentStatus' = updateStatusBasedOnLRA(currentGlobalLRA)
    /\ lastOp' = PlainOp("setCurrentProgram")
    /\ scenario' = NoScenario
    /\ silence' = SilenceAfterOp
    /\ meterCall' = meterCall
    /\ audioThread' = audioThread
    /\ trafficLight' = trafficLight
    /\ UNCHANGED << internalSampleRate, samplesUntilLraUpdate,
                    samplesProcessedSinceReset, currentPeak, currentGlobalLRA,
                    presetParam, peakParam, lraParam, resetLra, loudnessMeter >>

\* void setStateInformation(data, sizeInBytes): valid is whether the data
\* parses to this plugin's state tree; replaceState then stores the saved
\* preset, which runs the preset listener before the explicit handleResetLRA.
setStateInformation(valid, savedPreset, initOk1, initOk2) ==
    /\ IF valid
       THEN /\ presetParam' = savedPreset
            /\ handleResetLRA(IF savedPreset # presetParam
                              THEN MeterAfterReset(loudnessMeter, initOk1)
                              ELSE loudnessMeter,
                              initOk2)
       ELSE UNCHANGED << presetParam, loudnessMeter, currentGlobalLRA, lraParam,
                         samplesProcessedSinceReset, samplesUntilLraUpdate,
                         currentStatus >>
    /\ lastOp' = PlainOp("setStateInformation")
    /\ scenario' = NoScenario
    /\ silence' = SilenceAfterOp
    /\ meterCall' = meterCall
    /\ audioThread' = audioThread
    /\ trafficLight' = trafficLight
    /\ UNCHANGED << internalSampleRate, currentPeak,
                    peakParam, resetLra >>

\* Variant of isAudioPresentInBlock: no presence test, every block counts
isAudioPresentInBlock_Always(buffer) == TRUE

\* Variant of isAudioPresentInBlock: magnitude compared with >= instead of >
isAudioPresentInBlock_Inclusive(buffer) ==
    \E ch \in 1..totalNumChannels : buffer.mag[ch] >= PresenceThreshold

\* isAudioPresentInBlock: some input channel's magnitude exceeds the threshold
isAudioPresentInBlock(buffer) ==
    \E ch \in 1..totalNumChannels : buffer.mag[ch] > PresenceThreshold

\* Variant of blockMax: the magnitude of the first channel only
blockMax_FirstChannel(buffer) == buffer.mag[1]

\* Variant of CountedSamples: audio-bearing blocks count in every status
CountedSamples_AnyStatus(status0, processed0, buffer) ==
    IF isAudioPresentInBlock(buffer)
    THEN processed0 + buffer.numSamples
    ELSE processed0

\* if (currentStatus.load() == Measuring && isAudioPresentInBlock)
\*     samplesProcessedSinceReset.fetch_add(buffer.getNumSamples())
CountedSamples(status0, processed0, buffer) ==
    IF status0 = Measuring /\ isAudioPresentInBlock(buffer)
    THEN processed0 + buffer.numSamples
    ELSE processed0

\* blockMax: std::max over the input channels, starting from 0.0f
RECURSIVE MaxMagnitude(_, _)
MaxMagnitude(buffer, ch) ==
    IF ch = 0 THEN 0 ELSE Max(MaxMagnitude(buffer, ch - 1), buffer.mag[ch])

blockMax(buffer) == MaxMagnitude(buffer, totalNumChannels)

\* const bool bypassed = (bypassParam != nullptr) ? (bypassParam->load() > 0.5f) : false
bypassed == IF bypassParam # nullptr THEN bypassParam = "true" ELSE FALSE

\* Variant of ClampLRA: the polled value is stored as it is
ClampLRA_Identity(newLRA) == newLRA

\* Variant of ClampLRA: no test for NaN
ClampLRA_NoNaN(newLRA) ==
    IF isinf(newLRA) \/ FloatLess(newLRA, 0) THEN 0 ELSE newLRA

\* if (isinf(newLRA) || isnan(newLRA) || newLRA < 0) newLRA = 0.0f
ClampLRA(newLRA) ==
    IF isinf(newLRA) \/ isnan(newLRA) \/ FloatLess(newLRA, 0) THEN 0 ELSE newLRA

\* const int minSamplesForReliableLRA = static_cast<int>(rate * LRA_MEASURING_DURATION_SECONDS)
minSamplesForReliableLRA(rate) == rate * LRA_MEASURING_DURATION_SECONDS

\* Variant of NextCountdown: the countdown is not restarted
NextCountdown_NoRestart(until1, rate) == until1

\* Variant of NextCountdown: the countdown restarts at the sample rate
NextCountdown_Restart(until1, rate) == rate

\* samplesUntilLraUpdate += static_cast<int>(rate), on the countdown until1
\* already decreased by the block's sample count
NextCountdown(until1, rate) == until1 + rate

\* Variant of StatusAfterPoll: a settled status is kept, whatever the new LRA
StatusAfterPoll_Sticky(status0, processed1, rate, newLRA) ==
    IF status0 = Measuring
    THEN IF processed1 >= minSamplesForReliableLRA(rate)
         THEN updateStatusBasedOnLRA(newLRA)
         ELSE status0
    ELSE status0

\* The status after a poll that read newLRA, from the status status0 with
\* processed1 samples counted
StatusAfterPoll(status0, processed1, rate, newLRA) ==
    IF status0 = Measuring
    THEN IF processed1 >= minSamplesForReliableLRA(rate)
         THEN updateStatusBasedOnLRA(newLRA)
         ELSE status0
    ELSE updateStatusBasedOnLRA(newLRA)

\* The silence observer after a block: the samples of the blocks without
\* audio processed in a row in a settled status, counted up to
\* AUDIO_TIMEOUT seconds
SilenceAfterBlock(buffer, status0, statusAfter) ==
    IF silence = NoSilence
    THEN NoSilence
    ELSE IF status0 \in { Ok, Reduced, Loss } /\ statusAfter \in { Ok, Reduced, Loss }
            /\ ~isAudioPresentInBlock(buffer)
         THEN LET total == silence + buffer.numSamples
                  timeout == AUDIO_TIMEOUT * internalSampleRate
              IN  IF total > timeout THEN timeout ELSE total
         ELSE 0

\* The observer of an audio-only run after prepareToPlay in which every poll
\* read the same engine value
ScenarioAfterBlock(buffer, fired, meterLive, engine) ==
    IF scenario.samples < 0 \/ ~isAudioPresentInBlock(buffer)
       \/ scenario.samples + buffer.numSamples
              > File_LRA_MEASURING_DURATION_SECONDS * internalSampleRate
    THEN NoScenario
    ELSE IF ~fired
         THEN [ scenario EXCEPT !.samples = @ + buffer.numSamples ]
         ELSE IF meterLive /\ engine.err = 0
                 /\ engine.value >= 0 /\ engine.value < PosInf
                 /\ scenario.lra \in {AnyLRA, engine.value}
              THEN [ samples |-> scenario.samples + buffer.numSamples,
                     lra |-> engine.value ]
              ELSE NoScenario

\* void processBlock(buffer, midiMessages); engine is what the loudness-range
\* query returns if this block polls it, initOk whether ebur128_init succeeds
\* if this block leaves Bypassed
processBlock(buffer, engine, initOk) ==
    IF bypassed
    THEN /\ currentStatus' = Bypassed
         /\ lastOp' = OpRecord("processBlock", "-", buffer.numSamples,
                               buffer.mag, FALSE)
         /\ scenario' = NoScenario
         /\ silence' = SilenceAfterOp
         /\ meterCall' = meterCall
         /\ audioThread' = audioThread
         /\ trafficLight' = trafficLight
         /\ UNCHANGED << internalSampleRate,
                         samplesUntilLraUpdate, samplesProcessedSinceReset,
                         currentPeak, currentGlobalLRA, presetParam, peakParam,
                         lraParam, resetLra, loudnessMeter >>
    ELSE
    LET leavingBypass == currentStatus = Bypassed
        rateForPrepare == IF internalSampleRate > 0 THEN internalSampleRate
                                                    ELSE DefaultSampleRate
        chansForPrepare == IF totalNumChannels > 0 THEN totalNumChannels
                                                   ELSE DefaultNumChannels
        meter0 == IF leavingBypass
                  THEN LoudnessMeter_prepare(loudnessMeter, rateForPrepare,
                                             chansForPrepare, initOk)
                  ELSE loudnessMeter
        processed0 == IF leavingBypass THEN 0 ELSE samplesProcessedSinceReset
        until0 == IF leavingBypass THEN 0 ELSE samplesUntilLraUpdate
        status0 == IF leavingBypass THEN Measuring ELSE currentStatus
        \* peak tracking
        peak == gainToDecibels(blockMax(buffer))
        \* feed the meter
        meter1 == LoudnessMeter_processBlock(meter0, buffer.numSamples,
                                             totalNumChannels)
        \* count audio-bearing samples while measuring
        processed1 == CountedSamples(status0, processed0, buffer)
        \* periodic LRA fetch
        until1 == until0 - buffer.numSamples
        fired == until1 <= 0
        rate == IF internalSampleRate > 0 THEN internalSampleRate
                                          ELSE DefaultSampleRate
        query == LoudnessMeter_getLoudnessRange(meter1, engine)
        newLRA == ClampLRA(query.value)
        statusAfter == IF fired
                       THEN StatusAfterPoll(status0, processed1, rate, newLRA)
                       ELSE status0
    IN  /\ currentPeak' = peak
        /\ peakParam' = peak
        /\ samplesProcessedSinceReset' = processed1
        /\ IF fired
           THEN /\ samplesUntilLraUpdate' = NextCountdown(until1, rate)
                /\ loudnessMeter' = query.meter
                /\ currentGlobalLRA' = newLRA
                /\ lraParam' = newLRA
                /\ currentStatus' = statusAfter
           ELSE /\ samplesUntilLraUpdate' = until1
                /\ loudnessMeter' = meter1
                /\ currentGlobalLRA' = IF leavingBypass THEN 0 ELSE currentGlobalLRA
                /\ lraParam' = IF leavingBypass THEN 0 ELSE lraParam
                /\ currentStatus' = status0
        /\ lastOp' = OpRecord("processBlock",
                              IF status0 \in { Ok, Reduced, Loss }
                                 /\ statusAfter # status0
                              THEN status0 ELSE "-",
                              buffer.numSamples, buffer.mag, fired)
        /\ scenario' = ScenarioAfterBlock(buffer, fired, meter1.state = "live",
                                          engine)
        /\ silence' = SilenceAfterBlock(buffer, status0, statusAfter)
        /\ meterCall' = meterCall
        /\ audioThread' = audioThread
        /\ trafficLight' = trafficLight
        /\ UNCHANGED << internalSampleRate, presetParam, resetLra >>

-----------------------------------------------------------------------------
(* The host and the user *)

PresetIndices == 0..(presetsSize - 1)

\* The engine results that can make a difference to a block: the query is
\* made only when the block polls a live engine
ResultsFor(buffer, results) ==
    IF loudnessMeter.state = "live"
       /\ samplesUntilLraUpdate - buffer.numSamples <= 0
    THEN results
    ELSE { EngineFailure }

\* The host calls processBlock only between prepareToPlay and releaseResources,
\* with buffers of the negotiated layout that hold at most one second of audio.
ProcessBlockOver(results) ==
    /\ internalSampleRate > 0
    /\ \E buffer \in Buffers :
          /\ buffer.numSamples <= internalSampleRate
          /\ \E engine \in ResultsFor(buffer, results) :
                processBlock(buffer, engine, TRUE)

ProcessBlock == ProcessBlockOver(EngineResults)

PrepareToPlay ==
    \E r \in SampleRates, initOk \in BOOLEAN : prepareToPlay(r, initOk)

ResetButton == \E initOk \in BOOLEAN : parameterChanged_resetLra(TRUE, initOk)

PresetChanged ==
    \E p \in PresetIndices, initOk \in BOOLEAN : parameterChanged_preset(p, initOk)

SetCurrentProgram == setCurrentProgram

SetStateInformation ==
    \/ setStateInformation(FALSE, presetParam, TRUE, TRUE)
    \/ \E p \in PresetIndices, ok1 \in BOOLEAN, ok2 \in BOOLEAN :
          /\ (p = presetParam \/ internalSampleRate <= 0) => ok1
          /\ internalSampleRate <= 0 => ok2
          /\ setStateInformation(TRUE, p, ok1, ok2)

Next ==
    \/ PrepareToPlay
    \/ ProcessBlock
    \/ ResetButton
    \/ PresetChanged
    \/ SetCurrentProgram
    \/ SetStateInformation

Spec == Init /\ [][Next]_vars

-----------------------------------------------------------------------------
(* The decision rule on its own: the states after a poll stored an LRA of   *)
(* 0..MaxLRA tenths of a LU while measuring, and setCurrentProgram, which   *)
(* applies updateStatusBasedOnLRA to the stored LRA.                        *)

MaxLRA == 80

InitRule ==
    /\ internalSampleRate = MaxSampleRate
    /\ samplesUntilLraUpdate = MaxSampleRate
    /\ samplesProcessedSinceReset = 0
    /\ currentPeak = NegInf
    /\ peakParam = NegInf
    /\ currentGlobalLRA \in 0..MaxLRA
    /\ lraParam = currentGlobalLRA
    /\ currentStatus = Measuring
    /\ presetParam \in PresetIndices
    /\ resetLra = FALSE
    /\ loudnessMeter = [ state |-> "live", currentNumChannels |-> totalNumChannels,
                         currentSampleRate |-> MaxSampleRate,
                         lastShortTermLUFS |-> ResetLUFS,
                         lastMomentaryLUFS |-> ResetLUFS,
                         lastLRA |-> currentGlobalLRA, frames |-> 1 ]
    /\ lastOp = OpRecord("processBlock", "-", 1, <<0, 0>>, TRUE)
    /\ scenario = NoScenario
    /\ silence = NoSilence
    /\ meterCall = NoCall
    /\ audioThread = AudioIdle
    /\ trafficLight = TrafficLight_Init

NextRule == SetCurrentProgram

SpecRule == InitRule /\ [][NextRule]_vars

-----------------------------------------------------------------------------
(* The engine handing back values that are not a loudness range: the same   *)
(* processor, with ebur128_loudness_range also storing NaN and +infinity.   *)

InvalidEngineLRAValues == { NaN, PosInf }

ProcessBlockInvalid ==
    ProcessBlockOver(EngineResultsOver(EngineLRAValues \cup InvalidEngineLRAValues))

NextClamp ==
    \/ \E r \in SampleRates : prepareToPlay(r, TRUE)
    \/ ProcessBlockInvalid
    \/ SetCurrentProgram

SpecClamp == Init /\ [][NextClamp]_vars

-----------------------------------------------------------------------------
(* Silence in a settled status: the processor after prepareToPlay at one    *)
(* sample per second and fifteen one-sample blocks of audio on the right    *)
(* channel, each polling an LRA of 10.0 LU (status Ok under the default     *)
(* preset), from where the host goes on calling processBlock; the silence   *)
(* observer is on.                                                          *)

WatchdogSampleRate == 1

InitWatchdog ==
    /\ internalSampleRate = WatchdogSampleRate
    /\ samplesUntilLraUpdate = 0
    /\ samplesProcessedSinceReset = Class_LRA_MEASURING_DURATION_SECONDS * WatchdogSampleRate
    /\ currentPeak = 0
    /\ peakParam = 0
    /\ currentGlobalLRA = 100
    /\ lraParam = 100
    /\ currentStatus = Ok
    /\ presetParam = ParameterDefaults_preset
    /\ resetLra = FALSE
    /\ loudnessMeter = [ state |-> "live", currentNumChannels |-> totalNumChannels,
                         currentSampleRate |-> WatchdogSampleRate,
                         lastShortTermLUFS |-> ResetLUFS,
                         lastMomentaryLUFS |-> ResetLUFS,
                         lastLRA |-> 100, frames |-> MaxEngineFrames ]
    /\ lastOp = OpRecord("processBlock", "-", WatchdogSampleRate, <<0, 100000>>, TRUE)
    /\ scenario = NoScenario
    /\ silence = 0
    /\ meterCall = NoCall
    /\ audioThread = AudioIdle
    /\ trafficLight = TrafficLight_Init

NextWatchdog == ProcessBlock

SpecWatchdog == InitWatchdog /\ [][NextWatchdog]_vars

-----------------------------------------------------------------------------
(* Source/LoudnessMeter.cpp on its own: a client calling the public         *)
(* functions of one LoudnessMeter in any order; the processor's own fields  *)
(* stay as constructed.                                                     *)

\* numChannels: 1 = mono, 2 = stereo
MeterChannelCounts == { 1, 2 }

\* What ebur128_loudness_shortterm and ebur128_loudness_momentary hand back,
\* in LUFS: -infinity for silence, a value below the floor, a programme level
EngineLUFSValues == { NegInf, -150, -23 }
EngineLUFSResults == EngineResultsOver(EngineLUFSValues)

ProcessorUnchanged ==
    UNCHANGED << internalSampleRate, samplesUntilLraUpdate,
                 samplesProcessedSinceReset, currentPeak, currentGlobalLRA,
                 currentStatus, presetParam, peakParam, lraParam, resetLra,
                 lastOp, scenario, silence, audioThread, trafficLight >>

MeterPrepare(sampleRate, numChannels, initOk) ==
    /\ loudnessMeter' = LoudnessMeter_prepare(loudnessMeter, sampleRate,
                                              numChannels, initOk)
    /\ meterCall' = MeterCall("prepare", 0, numChannels, initOk, NoEngineCall,
                              0, GoodAfterReset, numChannels)
    /\ ProcessorUnchanged

MeterReset ==
    /\ loudnessMeter' = LoudnessMeter_reset(loudnessMeter)
    /\ meterCall' = MeterCall("reset", 0, 0, FALSE, NoEngineCall, 0,
                              GoodAfterReset, meterCall.prepared)
    /\ ProcessorUnchanged

MeterProcessBlock(numSamples, numChannels) ==
    /\ loudnessMeter' = LoudnessMeter_processBlock(loudnessMeter, numSamples,
                                                   numChannels)
    /\ meterCall' =
          [ MeterCall("processBlock", numSamples, numChannels, FALSE,
                      NoEngineCall, 0, meterCall.good, meterCall.prepared)
              EXCEPT !.allocated =
                  LoudnessMeter_processBlock_interleavedData(loudnessMeter,
                                                             numSamples, numChannels) ]
    /\ ProcessorUnchanged

\* The engine is queried only when there is one
Queried(engine) == loudnessMeter.state = "live" /\ engine.err = 0

MeterGetLoudnessRange(engine) ==
    LET r == LoudnessMeter_getLoudnessRange(loudnessMeter, engine)
    IN  /\ loudnessMeter' = r.meter
        /\ meterCall' = MeterCall("getLoudnessRange", 0, 0, FALSE, engine, r.value,
                                  IF Queried(engine)
                                  THEN [ meterCall.good EXCEPT !.range = engine.value ]
                                  ELSE meterCall.good,
                                  meterCall.prepared)
        /\ ProcessorUnchanged

MeterGetShortTermLoudness(engine) ==
    LET r == LoudnessMeter_getShortTermLoudness(loudnessMeter, engine)
    IN  /\ loudnessMeter' = r.meter
        /\ meterCall' = MeterCall("getShortTermLoudness", 0, 0, FALSE, engine, r.value,
                                  IF Queried(engine)
                                  THEN [ meterCall.good EXCEPT !.shortTerm = engine.value ]
                                  ELSE meterCall.good,
                                  meterCall.prepared)
        /\ ProcessorUnchanged

MeterGetMomentaryLoudness(engine) ==
    LET r == LoudnessMeter_getMomentaryLoudness(loudnessMeter, engine)
    IN  /\ loudnessMeter' = r.meter
        /\ meterCall' = MeterCall("getMomentaryLoudness", 0, 0, FALSE, engine, r.value,
                                  IF Queried(engine)
                                  THEN [ meterCall.good EXCEPT !.momentary = engine.value ]
                                  ELSE meterCall.good,
                                  meterCall.prepared)
        /\ ProcessorUnchanged

NextMeter ==
    \/ \E r \in SampleRates, ch \in MeterChannelCounts, initOk \in BOOLEAN :
          MeterPrepare(r, ch, initOk)
    \/ MeterReset
    \/ \E n \in 0..MaxBlockSize, ch \in MeterChannelCounts : MeterProcessBlock(n, ch)
    \/ \E engine \in EngineResults : MeterGetLoudnessRange(engine)
    \/ \E engine \in EngineLUFSResults : MeterGetShortTermLoudness(engine)
    \/ \E engine \in EngineLUFSResults : MeterGetMomentaryLoudness(engine)

SpecMeter == Init /\ [][NextMeter]_vars

-----------------------------------------------------------------------------
(* The two threads: processBlock on the audio thread, taken in steps between *)
(* which the message thread can run parameterChanged for the reset button;   *)
(* no lock is taken on either side.  The processor starts from the settled   *)
(* state of InitWatchdog.  A step of the audio thread leaves "audioThread"   *)
(* as the last operation, so that a step that finds another one there knows  *)
(* the message thread ran in between.                                        *)

AudioOp == OpRecord("audioThread", "-", 0, <<0, 0>>, FALSE)

\* The operations of the message thread that call handleResetLRA
RacingOps == { "resetLra", "presetChanged" }

AudioStepUnchanged ==
    UNCHANGED << internalSampleRate, presetParam, resetLra, scenario, silence,
                 meterCall, trafficLight >>

\* processBlock up to the checks of LoudnessMeter::processBlock: the peak is
\* stored; the block goes on to the engine when the meter has a handle, the
\* block has samples and the channel counts agree
AudioBegin(buffer) ==
    /\ audioThread.pc = "idle"
    /\ internalSampleRate > 0
    /\ buffer.numSamples <= internalSampleRate
    /\ ~bypassed
    /\ currentStatus # Bypassed
    /\ currentPeak' = gainToDecibels(blockMax(buffer))
    /\ peakParam' = gainToDecibels(blockMax(buffer))
    /\ audioThread' =
          AudioThread(IF /\ loudnessMeter.state # "null"
                         /\ buffer.numSamples # 0
                         /\ totalNumChannels = loudnessMeter.currentNumChannels
                      THEN "addFrames" ELSE "count",
                      buffer.numSamples, buffer.mag, 0, "none", FALSE)
    /\ lastOp' = AudioOp
    /\ UNCHANGED << samplesUntilLraUpdate, samplesProcessedSinceReset,
                    currentGlobalLRA, currentStatus, lraParam, loudnessMeter >>
    /\ AudioStepUnchanged

\* The handle ebur128_add_frames_float can be called with after the check of
\* the handle: the member as it is now, or, when a prepare ran in between (a
\* data race on the member), also the handle the check saw, destroyed since
HandlesForAddFrames ==
    IF lastOp.op \in RacingOps
    THEN { "destroyed", loudnessMeter.state }
    ELSE { loudnessMeter.state }

\* ebur128_add_frames_float(state, interleavedData.data(), numFrames)
AudioAddFrames ==
    /\ audioThread.pc = "addFrames"
    /\ \E handle \in HandlesForAddFrames :
          /\ audioThread' = [ audioThread EXCEPT !.pc = "count",
                                                 !.engineCall = handle ]
          /\ loudnessMeter' =
                IF handle = "live"
                THEN LoudnessMeter_processBlock(loudnessMeter,
                                                audioThread.numSamples,
                                                totalNumChannels)
                ELSE loudnessMeter
    /\ lastOp' = AudioOp
    /\ UNCHANGED << samplesUntilLraUpdate, samplesProcessedSinceReset,
                    currentPeak, peakParam, currentGlobalLRA, currentStatus,
                    lraParam >>
    /\ AudioStepUnchanged

\* The sample counter and the countdown
AudioCount ==
    /\ audioThread.pc = "count"
    /\ LET buffer == [ numSamples |-> audioThread.numSamples,
                       mag |-> audioThread.mag ]
           until1 == samplesUntilLraUpdate - buffer.numSamples
           rate == IF internalSampleRate > 0 THEN internalSampleRate
                                             ELSE DefaultSampleRate
       IN  /\ samplesProcessedSinceReset' =
                 CountedSamples(currentStatus, samplesProcessedSinceReset, buffer)
           /\ samplesUntilLraUpdate' =
                 IF until1 <= 0 THEN NextCountdown(until1, rate) ELSE until1
           /\ audioThread' = [ audioThread EXCEPT
                                  !.pc = IF until1 <= 0 THEN "poll" ELSE "idle" ]
    /\ lastOp' = AudioOp
    /\ UNCHANGED << currentPeak, peakParam, currentGlobalLRA, currentStatus,
                    lraParam, loudnessMeter >>
    /\ AudioStepUnchanged

\* float newLRA = loudnessMeter.getLoudnessRange(), and its clamp
AudioPoll(engine) ==
    /\ audioThread.pc = "poll"
    /\ LET query == LoudnessMeter_getLoudnessRange(loudnessMeter, engine)
       IN  /\ loudnessMeter' = query.meter
           /\ audioThread' =
                 [ audioThread EXCEPT
                      !.pc = "storeLRA",
                      !.newLRA = ClampLRA(query.value),
                      !.engineCall = IF loudnessMeter.state = "null"
                                     THEN @ ELSE loudnessMeter.state,
                      !.resetAfterPoll = FALSE ]
    /\ lastOp' = AudioOp
    /\ UNCHANGED << samplesUntilLraUpdate, samplesProcessedSinceReset,
                    currentPeak, peakParam, currentGlobalLRA, currentStatus,
                    lraParam >>
    /\ AudioStepUnchanged

\* Whether the message thread ran a reset since the audio thread's poll
ResetAfterPoll == audioThread.resetAfterPoll \/ lastOp.op \in RacingOps

\* currentGlobalLRA.store(newLRA); lraParam->store(newLRA)
AudioStoreLRA ==
    /\ audioThread.pc = "storeLRA"
    /\ currentGlobalLRA' = audioThread.newLRA
    /\ lraParam' = audioThread.newLRA
    /\ audioThread' = [ audioThread EXCEPT !.pc = "decide",
                                           !.resetAfterPoll = ResetAfterPoll ]
    /\ lastOp' = AudioOp
    /\ UNCHANGED << samplesUntilLraUpdate, samplesProcessedSinceReset,
                    currentPeak, peakParam, currentStatus, loudnessMeter >>
    /\ AudioStepUnchanged

\* The tests of the status and of the sample counter that decide whether
\* updateStatusBasedOnLRA is called
AudioDecide ==
    /\ audioThread.pc = "decide"
    /\ LET rate == IF internalSampleRate > 0 THEN internalSampleRate
                                             ELSE DefaultSampleRate
           calls == IF currentStatus = Measuring
                    THEN samplesProcessedSinceReset >= minSamplesForReliableLRA(rate)
                    ELSE TRUE
       IN  audioThread' = [ audioThread EXCEPT
                               !.pc = IF calls THEN "update" ELSE "idle",
                               !.resetAfterPoll = ResetAfterPoll ]
    /\ lastOp' = AudioOp
    /\ UNCHANGED << samplesUntilLraUpdate, samplesProcessedSinceReset,
                    currentPeak, peakParam, currentGlobalLRA, currentStatus,
                    lraParam, loudnessMeter >>
    /\ AudioStepUnchanged

\* updateStatusBasedOnLRA(newLRA), which ends the call
AudioUpdate ==
    /\ audioThread.pc = "update"
    /\ currentStatus' = updateStatusBasedOnLRA(audioThread.newLRA)
    /\ audioThread' = [ audioThread EXCEPT !.pc = "idle",
                                           !.resetAfterPoll = ResetAfterPoll ]
    /\ lastOp' = AudioOp
    /\ UNCHANGED << samplesUntilLraUpdate, samplesProcessedSinceReset,
                    currentPeak, peakParam, currentGlobalLRA, lraParam,
                    loudnessMeter >>
    /\ AudioStepUnchanged

\* What the engine returns to a poll of the audio thread
EngineResultsForPoll ==
    IF loudnessMeter.state = "live" THEN EngineResults ELSE { EngineFailure }

NextRace ==
    \/ \E buffer \in Buffers : AudioBegin(buffer)
    \/ AudioAddFrames
    \/ AudioCount
    \/ \E engine \in EngineResultsForPoll : AudioPoll(engine)
    \/ AudioStoreLRA
    \/ AudioDecide
    \/ AudioUpdate
    \/ ResetButton

SpecRace == InitWatchdog /\ [][NextRace]_vars

-----------------------------------------------------------------------------
(* Source/TrafficLightComponent.cpp and the colour helpers of               *)
(* Source/Constants.h: the component on its own, its status set and its     *)
(* bounds changed by the editor, painted by the message loop.               *)

\* namespace Palette and the colours derived from it
Palette_Ok == "Palette::Ok"
Palette_Reduced == "Palette::Reduced"
Palette_Loss == "Palette::Loss"
Palette_Muted == "Palette::Muted"
MeasuringColour == "Palette::Secondary.withAlpha(0.6f)"
BypassedLightColour == "Palette::Muted.withAlpha(BypassedAlpha)"
InactiveLightColour == "Palette::Background.brighter(InactiveBackgroundBrightnessFactor)"

\* juce::Colour getStatusColour(DynamicsStatus status)
getStatusColour(status) ==
    CASE status = Ok -> Palette_Ok
      [] status = Reduced -> Palette_Reduced
      [] status = Loss -> Palette_Loss
      [] status = Measuring -> MeasuringColour
      [] OTHER -> Palette_Muted

\* Variant of getLightColour: outside Bypassed every light has its colour
getLightColour_AllLit(lightTargetStatus, currentActualStatus) ==
    IF currentActualStatus = Bypassed
    THEN BypassedLightColour
    ELSE getStatusColour(lightTargetStatus)

\* juce::Colour TrafficLightMetrics::getLightColour(lightTargetStatus,
\*                                                  currentActualStatus)
getLightColour(lightTargetStatus, currentActualStatus) ==
    IF currentActualStatus = Bypassed
    THEN BypassedLightColour
    ELSE IF currentActualStatus = Measuring
         THEN InactiveLightColour
         ELSE IF currentActualStatus = lightTargetStatus
              THEN getStatusColour(lightTargetStatus)
              ELSE InactiveLightColour

\* constexpr float spacing = 5.0f
spacing == 5

\* Three times lightDiameter = jmin(totalHeightForLights / 3.0f,
\*                                  bounds.getWidth() - spacing * 2.0f)
lightDiameterTimes3(height, width) ==
    LET totalHeightForLights == height - spacing * 4
        maxWidth == width - spacing * 2
    IN  IF totalHeightForLights <= 3 * maxWidth THEN totalHeightForLights
                                                ELSE 3 * maxWidth

\* void TrafficLightComponent::setStatus(DynamicsStatus newStatus)
TrafficLight_setStatus(t, newStatus) ==
    IF t.currentStatus # newStatus
    THEN [ t EXCEPT !.currentStatus = newStatus, !.repaint = TRUE ]
    ELSE t

\* void TrafficLightComponent::paint(juce::Graphics& g): the fill colours of
\* the top, middle and bottom light, or nothing when there is no room
TrafficLight_paint(t) ==
    IF lightDiameterTimes3(t.height, t.width) <= 0
    THEN [ t EXCEPT !.repaint = FALSE, !.painted = NotPainted ]
    ELSE [ t EXCEPT !.repaint = FALSE,
                    !.painted = [ status |-> t.currentStatus,
                                  Loss |-> getLightColour(Loss, t.currentStatus),
                                  Reduced |-> getLightColour(Reduced, t.currentStatus),
                                  Ok |-> getLightColour(Ok, t.currentStatus) ] ]

\* The bounds the editor's resized() can give the component: none, too low,
\* too narrow, and up to MaxLightRoom sizes with room for the lights
MaxLightRoom == 2

LightBounds ==
    { <<0, 0>>, <<20, 100>>, <<100, 10>> }
        \cup { <<20 + 30 * k, 10 + 20 * k>> : k \in 1..MaxLightRoom }

ProcessorAndMeterUnchanged ==
    UNCHANGED << internalSampleRate, samplesUntilLraUpdate,
                 samplesProcessedSinceReset, currentPeak, currentGlobalLRA,
                 currentStatus, presetParam, peakParam, lraParam, resetLra,
                 loudnessMeter, lastOp, scenario, silence, meterCall,
                 audioThread >>

\* trafficLight.setStatus(currentProcStatus), from updateUIStatus
LightSetStatus(newStatus) ==
    /\ trafficLight' = TrafficLight_setStatus(trafficLight, newStatus)
    /\ ProcessorAndMeterUnchanged

\* trafficLight.setBounds(...), from the editor's resized(); a component whose
\* bounds change is repainted
LightSetBounds(bounds) ==
    /\ trafficLight' = [ trafficLight EXCEPT
                            !.height = bounds[1], !.width = bounds[2],
                            !.repaint = @ \/ bounds # <<trafficLight.height,
                                                        trafficLight.width>> ]
    /\ ProcessorAndMeterUnchanged

\* The message loop paints a component marked for repaint
LightPaint ==
    /\ trafficLight.repaint
    /\ trafficLight' = TrafficLight_paint(trafficLight)
    /\ ProcessorAndMeterUnchanged

NextLights ==
    \/ \E newStatus \in DynamicsStatus : LightSetStatus(newStatus)
    \/ \E bounds \in LightBounds : LightSetBounds(bounds)
    \/ LightPaint

SpecLights == Init /\ [][NextLights]_vars

-----------------------------------------------------------------------------
(* The engine without enough history: the same processor with a live engine *)
(* whose every ebur128_loudness_range call returns an error code.           *)

ProcessBlockQueryFails == ProcessBlockOver({ EngineFailure })

NextQueryFail ==
    \/ \E r \in SampleRates : prepareToPlay(r, TRUE)
    \/ ProcessBlockQueryFails

SpecQueryFail == Init /\ [][NextQueryFail]_vars

-----------------------------------------------------------------------------
(* The preset lookup on its own: as the decision rule's specification, with *)
(* the raw value of the preset parameter drawn from the valid indices, the  *)
(* MaxPresetExcess values on either side of them and 99.                    *)

MaxPresetExcess == 2

RawPresetValues ==
    ((0 - MaxPresetExcess)..(presetsSize - 1 + MaxPresetExcess)) \cup { 99 }

InitPreset ==
    /\ internalSampleRate = MaxSampleRate
    /\ samplesUntilLraUpdate = MaxSampleRate
    /\ samplesProcessedSinceReset = 0
    /\ currentPeak = NegInf
    /\ peakParam = NegInf
    /\ currentGlobalLRA \in 0..MaxLRA
    /\ lraParam = currentGlobalLRA
    /\ currentStatus = Measuring
    /\ presetParam \in RawPresetValues
    /\ resetLra = FALSE
    /\ loudnessMeter = [ state |-> "live", currentNumChannels |-> totalNumChannels,
                         currentSampleRate |-> MaxSampleRate,
                         lastShortTermLUFS |-> ResetLUFS,
                         lastMomentaryLUFS |-> ResetLUFS,
                         lastLRA |-> currentGlobalLRA, frames |-> 1 ]
    /\ lastOp = OpRecord("processBlock", "-", 1, <<0, 0>>, TRUE)
    /\ scenario = NoScenario
    /\ silence = NoSilence
    /\ meterCall = NoCall
    /\ audioThread = AudioIdle
    /\ trafficLight = TrafficLight_Init

NextPreset == SetCurrentProgram

SpecPreset == InitPreset /\ [][NextPreset]_vars

-----------------------------------------------------------------------------
(* Properties *)

Settled == { Ok, Reduced, Loss }

\* A buffer in which some channel exceeds the presence threshold
AudioBearing(mag) == \E ch \in 1..Len(mag) : mag[ch] > PresenceThreshold

\* The sample count processBlock compares samplesProcessedSinceReset with
CodeMeasuringThreshold ==
    Class_LRA_MEASURING_DURATION_SECONDS *
        (IF internalSampleRate > 0 THEN internalSampleRate ELSE DefaultSampleRate)

\* C1: when setCurrentProgram has applied updateStatusBasedOnLRA to the stored
\* LRA, the status is Loss exactly if LRA < red, Reduced exactly if
\* red <= LRA < amber, Ok exactly if LRA >= amber (red, amber: the selected
\* preset's thresholds), so a value equal to a threshold is in the better bucket.
C1_DecisionRule ==
    lastOp.op = "setCurrentProgram" =>
        LET red == presetAt(presetParam).lraThresholdRed
            amber == presetAt(presetParam).lraThresholdAmber
            lra == currentGlobalLRA
        IN  /\ red < amber
            /\ (currentStatus = Loss) <=> (lra < red)
            /\ (currentStatus = Reduced) <=> (red <= lra /\ lra < amber)
            /\ (currentStatus = Ok) <=> (lra >= amber)

\* C1 witness: the rule was applied to an LRA equal to the amber threshold
C1_Witness ==
    /\ lastOp.op = "setCurrentProgram"
    /\ currentGlobalLRA = presetAt(presetParam).lraThresholdAmber
    /\ currentStatus = Ok

\* The decision rule as the specification states it
ExpectedStatus(lra, presetIndex) ==
    IF lra < presetAt(presetIndex).lraThresholdRed THEN Loss
    ELSE IF lra < presetAt(presetIndex).lraThresholdAmber THEN Reduced
    ELSE Ok

\* The operations that run a reset of the session
ResetOps == { "prepareToPlay", "resetLra", "presetChanged", "setStateInformation" }

\* C2: no step takes the status from Measuring to Ok, Reduced or Loss unless
\* samplesProcessedSinceReset has reached the measuring threshold.
C2_StatusGated ==
    [][ (currentStatus = Measuring /\ currentStatus' \in Settled)
            => samplesProcessedSinceReset' >= CodeMeasuringThreshold ]_vars

\* C3: a processBlock call leaves Measuring exactly when it polls with
\* samplesProcessedSinceReset at or above sampleRate x 12.
C3_TwelveSeconds ==
    [][ (lastOp'.op = "processBlock" /\ currentStatus = Measuring)
            => ( (currentStatus' \in Settled)
                 <=> ( lastOp'.fired
                       /\ samplesProcessedSinceReset'
                              >= File_LRA_MEASURING_DURATION_SECONDS
                                     * internalSampleRate ) ) ]_vars

\* C4: after prepareToPlay and audio-bearing blocks totalling 12 seconds in
\* which every poll read the LRA L, the status is the decision rule's result
\* for L under the selected preset (and so not Measuring).
C4_ScenarioSettles ==
    ( internalSampleRate > 0
      /\ scenario.samples = File_LRA_MEASURING_DURATION_SECONDS * internalSampleRate )
        => currentStatus = ExpectedStatus(scenario.lra, presetParam)

C6_CountsAudioOnly ==
    [][ lastOp'.op = "processBlock"
            => /\ samplesProcessedSinceReset' > samplesProcessedSinceReset
                    => ( AudioBearing(lastOp'.mag)
                         /\ samplesProcessedSinceReset'
                                = samplesProcessedSinceReset + lastOp'.numSamples )
               /\ ~AudioBearing(lastOp'.mag)
                    => samplesProcessedSinceReset' <= samplesProcessedSinceReset ]_vars

\* C6 witness: an audio-bearing block of the largest size was counted on top
\* of earlier samples
C6_Witness ==
    /\ lastOp.op = "processBlock"
    /\ AudioBearing(lastOp.mag)
    /\ lastOp.numSamples = MaxBlockSize
    /\ currentStatus = Measuring
    /\ samplesProcessedSinceReset > lastOp.numSamples

C12_PollReevaluates ==
    [][ (lastOp'.op = "processBlock" /\ currentStatus \in Settled)
            => /\ lastOp'.fired
                    => currentStatus' = ExpectedStatus(currentGlobalLRA', presetParam)
               /\ currentStatus' # Measuring ]_vars

\* C12 witness: a poll moved the status from Loss directly to Ok
C12_Witness ==
    /\ lastOp.op = "processBlock"
    /\ lastOp.fired
    /\ lastOp.from = Loss
    /\ currentStatus = Ok

\* C13: when blocks without audio, processed in a row in the statuses Ok,
\* Reduced and Loss, add up to AUDIO_TIMEOUT seconds of samples, the status
\* is AwaitingAudio.
C13_WatchdogAwaitsAudio ==
    silence >= AUDIO_TIMEOUT * internalSampleRate
        => currentStatus = "AwaitingAudio"

\* C14 as stated: processBlock decreases the countdown by the block's sample
\* count, polls exactly when the result is zero or below, and after a poll
\* the countdown equals the sample rate.
C14_CountdownRestarts ==
    [][ lastOp'.op = "processBlock"
            => /\ lastOp'.fired
                    <=> (samplesUntilLraUpdate - lastOp'.numSamples <= 0)
               /\ lastOp'.fired => samplesUntilLraUpdate' = internalSampleRate
               /\ ~lastOp'.fired
                    => samplesUntilLraUpdate'
                           = samplesUntilLraUpdate - lastOp'.numSamples ]_vars

\* C14 as amended: processBlock decreases the countdown by the block's sample
\* count, polls exactly when the result is zero or below, and after a poll
\* the countdown is that result plus the sample rate (the samples beyond
\* zero are carried into the next period).
C14_CountdownCarries ==
    [][ lastOp'.op = "processBlock"
            => /\ lastOp'.fired
                    <=> (samplesUntilLraUpdate - lastOp'.numSamples <= 0)
               /\ lastOp'.fired
                    => samplesUntilLraUpdate'
                           = samplesUntilLraUpdate - lastOp'.numSamples
                                 + internalSampleRate
               /\ ~lastOp'.fired
                    => samplesUntilLraUpdate'
                           = samplesUntilLraUpdate - lastOp'.numSamples ]_vars

\* C14 witness: a poll left the countdown below the sample rate
C14_Witness ==
    /\ lastOp.op = "processBlock"
    /\ lastOp.fired
    /\ lastOp.numSamples > 0
    /\ samplesUntilLraUpdate > 0
    /\ samplesUntilLraUpdate < internalSampleRate

\* What the loudness-range query of the last poll returned
PolledLRA == IF loudnessMeter.state = "null" THEN 0 ELSE loudnessMeter.lastLRA

\* The clamp as the specification states it
ExpectedClamp(v) == IF v \in { NaN, PosInf, NegInf } \/ v < 0 THEN 0 ELSE v

\* C15: after a processBlock call that polled, in any status, the cached LRA
\* and the lra parameter are equal to each other and to the clamped value the
\* query returned.
C15_PollStoresLRA ==
    (lastOp.op = "processBlock" /\ lastOp.fired)
        => /\ currentGlobalLRA = lraParam
           /\ currentGlobalLRA = ExpectedClamp(PolledLRA)

\* C15 witness: a poll stored 10.0 LU while the status was still Measuring
C15_Witness ==
    /\ lastOp.op = "processBlock"
    /\ lastOp.fired
    /\ currentStatus = Measuring
    /\ samplesProcessedSinceReset < CodeMeasuringThreshold
    /\ loudnessMeter.lastLRA = 100
    /\ currentGlobalLRA = 100
    /\ lraParam = 100

\* C16: in every reachable state the cached LRA, which getReportedLRA returns
\* and which is compared with the thresholds, is finite and not negative.
C16_ReportedLRAFinite ==
    /\ currentGlobalLRA \notin { NaN, PosInf, NegInf }
    /\ currentGlobalLRA >= 0

\* C16 witness: a poll read NaN from the engine and 0 was stored
C16_Witness ==
    /\ lastOp.op = "processBlock"
    /\ lastOp.fired
    /\ loudnessMeter.state = "live"
    /\ loudnessMeter.lastLRA = NaN
    /\ currentGlobalLRA = 0

C18_ResetUsesDefaults ==
    (lastOp.op = "resetLra" /\ internalSampleRate <= 0)
        => /\ loudnessMeter.currentSampleRate = DefaultSampleRate
           /\ currentGlobalLRA = 0
           /\ lraParam = 0
           /\ samplesProcessedSinceReset = 0
           /\ currentStatus \in { Measuring, "AwaitingAudio" }

\* C18 as amended: when the reset trigger or a preset change runs
\* handleResetLRA without a sample rate set (internalSampleRate <= 0), the
\* call is abandoned: the analyzer, the cached LRA, the lra parameter, the
\* peak, both counters and the status are left as they were.
C18_ResetAbandoned ==
    [][ (lastOp'.op \in { "resetLra", "presetChanged" } /\ internalSampleRate <= 0)
            => UNCHANGED << loudnessMeter, currentGlobalLRA, lraParam, currentPeak,
                            samplesProcessedSinceReset, samplesUntilLraUpdate,
                            currentStatus >> ]_vars

\* C18 witness: the reset trigger ran before any prepareToPlay, in status Loss
C18_Witness ==
    /\ lastOp.op = "resetLra"
    /\ internalSampleRate <= 0
    /\ lastOp.from = Loss
    /\ currentStatus = Loss

\* C19: the reset trigger run directly after the reset trigger leaves the
\* status, the cached LRA, the peak and both counters as the first run left them.
C19_ResetIdempotent ==
    [][ (lastOp'.op = "resetLra" /\ lastOp'.repeat)
            => UNCHANGED << currentStatus, currentGlobalLRA, currentPeak,
                            samplesProcessedSinceReset, samplesUntilLraUpdate >> ]_vars

\* C19 witness: the reset trigger ran twice in a row with a sample rate set
C19_Witness ==
    /\ lastOp.op = "resetLra"
    /\ lastOp.repeat
    /\ internalSampleRate > 0
    /\ currentStatus = Measuring
    /\ currentPeak = 0

\* C20: a reset trigger runs one reset and leaves the resetLra parameter
\* false, so the parameter is false between operations; and while it is
\* false no processBlock call resets: the counter does not decrease and the
\* status does not return to Measuring.
C20_EdgeTriggered ==
    [][ /\ lastOp'.op = "resetLra"
            => /\ resetLra' = FALSE
               /\ internalSampleRate > 0
                    => ( currentStatus' = Measuring
                         /\ samplesProcessedSinceReset' = 0 )
        /\ (lastOp'.op = "processBlock" /\ resetLra = FALSE)
            => /\ samplesProcessedSinceReset' >= samplesProcessedSinceReset
               /\ currentStatus \in Settled => currentStatus' \in Settled
               /\ resetLra' = FALSE ]_vars

\* C20 witness: the reset trigger ran in status Reduced and the parameter is
\* back at false
C20_Witness ==
    /\ lastOp.op = "resetLra"
    /\ lastOp.from = Reduced
    /\ resetLra = FALSE
    /\ currentStatus = Measuring
    /\ samplesProcessedSinceReset = 0

\* What a run of handleResetLRA leaves behind, from the status `from`: with a
\* sample rate set the values of a fresh measurement, without one the status
\* it found
ResetOutcome(from) ==
    IF internalSampleRate > 0
    THEN /\ currentStatus = Measuring
         /\ currentGlobalLRA = 0
         /\ lraParam = 0
         /\ samplesProcessedSinceReset = 0
         /\ samplesUntilLraUpdate = 0
         /\ loudnessMeter.frames = 0
         /\ loudnessMeter.currentSampleRate = internalSampleRate
    ELSE currentStatus = from

C22_PresetIndexValidated ==
    /\ validPresetIndex(presetParam) \in 0..(presetsSize - 1)
    /\ ParameterDefaults_preset \in 0..(presetsSize - 1)
    /\ (lastOp.op = "setCurrentProgram" /\ presetParam \notin 0..(presetsSize - 1))
        => currentStatus = ExpectedStatus(currentGlobalLRA, ParameterDefaults_preset)
    /\ (lastOp.op = "setCurrentProgram" /\ presetParam \in 0..(presetsSize - 1))
        => currentStatus = ExpectedStatus(currentGlobalLRA, presetParam)

\* C22 witness: with the raw preset value 99 and an LRA of 4.5 LU the status
\* is Reduced, as under the default preset
C22_Witness ==
    /\ lastOp.op = "setCurrentProgram"
    /\ presetParam = 99
    /\ currentGlobalLRA = 45
    /\ currentStatus = Reduced

\* The operations that run on the message thread
MessageThreadOps ==
    { "resetLra", "resetLraFalse", "presetChanged", "setStateInformation",
      "setCurrentProgram" }

\* C23: no operation of the message thread writes the status, the cached
\* LRA or the two counters.
C23_AudioThreadOnlyWrites ==
    [][ lastOp'.op \in MessageThreadOps
            => UNCHANGED << currentStatus, currentGlobalLRA,
                            samplesProcessedSinceReset, samplesUntilLraUpdate >> ]_vars

\* C24: while the analyzer has no engine, no processBlock call takes the
\* status from Measuring to Ok, Reduced or Loss.
C24_NoEngineNoVerdict ==
    [][ ( lastOp'.op = "processBlock" /\ loudnessMeter.state = "null"
          /\ currentStatus = Measuring )
            => currentStatus' = Measuring ]_vars

\* C25: a poll in which the loudness-range query fails leaves the status as
\* it was before the block and the reported LRA at its value.
C25_FailedPollKeepsStatus ==
    [][ ( lastOp'.op = "processBlock" /\ lastOp'.fired
          /\ loudnessMeter.state = "live" )
            => /\ currentStatus' = currentStatus
               /\ currentGlobalLRA' = currentGlobalLRA ]_vars

\* C26 as stated: getLoudnessRange never returns a negative number.
C26_RangeNeverNegative ==
    meterCall.op = "getLoudnessRange" => meterCall.returned >= 0

\* C26 as amended: getLoudnessRange returns 0 without an engine, the engine's
\* value as it is (also a negative one) when the query succeeds, and the value
\* of the last successful query since the last prepare or reset (0 if none)
\* when it fails.
C26_RangeAsQueried ==
    meterCall.op = "getLoudnessRange"
        => meterCall.returned =
              IF loudnessMeter.state = "null" THEN 0
              ELSE IF meterCall.err = 0 THEN meterCall.value
              ELSE meterCall.good.range

\* C26 witness: a successful query handed back the engine's negative value
C26_Witness ==
    /\ meterCall.op = "getLoudnessRange"
    /\ loudnessMeter.state = "live"
    /\ meterCall.err = 0
    /\ meterCall.returned < 0

\* C27: a processBlock call on an analyzer without an engine, or with a block
\* of zero samples, changes nothing of the analyzer, and an analyzer without
\* an engine gets one only by a successful prepare.
C27_UnpreparedIsNoOp ==
    [][ /\ ( meterCall'.op = "processBlock"
             /\ (loudnessMeter.state = "null" \/ meterCall'.numSamples = 0) )
            => loudnessMeter' = loudnessMeter
        /\ ( loudnessMeter.state = "null" /\ loudnessMeter'.state # "null" )
            => (meterCall'.op = "prepare" /\ meterCall'.initOk) ]_vars

\* C27 witness: a block with samples and the prepared channel count was
\* passed after a failed prepare
C27_Witness ==
    /\ meterCall.op = "processBlock"
    /\ meterCall.numSamples > 0
    /\ meterCall.numChannels = meterCall.prepared
    /\ loudnessMeter.state = "null"
    /\ loudnessMeter.currentSampleRate > 0
    /\ loudnessMeter.frames = 0

\* C28: a processBlock call whose buffer has another channel count than the
\* one given to the last prepare changes nothing of the analyzer.
C28_ChannelMismatchDropped ==
    [][ ( meterCall'.op = "processBlock"
          /\ meterCall'.numChannels # meterCall.prepared )
            => loudnessMeter' = loudnessMeter ]_vars

\* C28 witness: a block with samples and the wrong channel count was passed to
\* a prepared analyzer, which holds no frame
C28_Witness ==
    /\ meterCall.op = "processBlock"
    /\ meterCall.numSamples > 0
    /\ meterCall.numChannels # meterCall.prepared
    /\ loudnessMeter.state = "live"
    /\ loudnessMeter.frames = 0

\* C29: a query of a prepared analyzer in which the engine fails returns the
\* engine's value of the most recent successful query of the same kind since
\* the last prepare or reset, or the reset value if there was none.
C29_FailedQueryReturnsLastGood ==
    (loudnessMeter.state = "live" /\ meterCall.err # 0)
        => /\ meterCall.op = "getShortTermLoudness"
                => meterCall.returned = meterCall.good.shortTerm
           /\ meterCall.op = "getMomentaryLoudness"
                => meterCall.returned = meterCall.good.momentary
           /\ meterCall.op = "getLoudnessRange"
                => meterCall.returned = meterCall.good.range

\* C29 witness: a failed short-term query returned the value of an earlier
\* successful one
C29_Witness ==
    /\ loudnessMeter.state = "live"
    /\ meterCall.op = "getShortTermLoudness"
    /\ meterCall.err # 0
    /\ meterCall.returned = -23
    /\ meterCall.good.shortTerm = -23

\* C30: getShortTermLoudness and getMomentaryLoudness return negative infinity
\* or a value of at least -140 LUFS.
C30_NothingBelowFloor ==
    meterCall.op \in { "getShortTermLoudness", "getMomentaryLoudness" }
        => (meterCall.returned = NegInf \/ meterCall.returned >= SilenceFloorLUFS)

C32_NoAllocationPerBlock ==
    meterCall.op = "processBlock" => meterCall.allocated = 0

\* The peak in dB of a block with the channel magnitudes mag: -infinity for
\* digital silence, -100 dB at the magnitude 0.00001, 0 dB at full scale
ExpectedPeak(mag) ==
    IF \A ch \in 1..Len(mag) : mag[ch] = 0 THEN NegInf
    ELSE IF \E ch \in 1..Len(mag) : mag[ch] = 100000 THEN 0
    ELSE -100

\* C33: after every processBlock call, in every status, the cached peak and
\* the peak parameter are equal and hold the peak of that block: its largest
\* channel magnitude in dB.
C33_PeakWrittenEveryBlock ==
    lastOp.op = "processBlock"
        => /\ currentPeak = peakParam
           /\ currentPeak = ExpectedPeak(lastOp.mag)

\* C33 witness: a silent block was processed in the status Measuring after a
\* louder one, and the peak is at -infinity
C33_Witness ==
    /\ lastOp.op = "processBlock"
    /\ currentStatus = Measuring
    /\ lastOp.numSamples > 0
    /\ lastOp.mag = <<0, 0>>
    /\ samplesProcessedSinceReset > 0
    /\ currentPeak = NegInf
    /\ peakParam = NegInf

\* C34: in every state, every preset of the table, and so the preset the
\* status is decided with, has its red threshold below its amber threshold
\* and a target range that is not empty; the table is a constant of the
\* program.
C34_PresetTableOrdered ==
    /\ \A i \in 0..(presetsSize - 1) :
          /\ presetAt(i).lraThresholdRed < presetAt(i).lraThresholdAmber
          /\ presetAt(i).targetLraMin <= presetAt(i).targetLraMax
    /\ LET selectedPreset == presetAt(validPresetIndex(presetParam))
       IN  /\ selectedPreset.lraThresholdRed < selectedPreset.lraThresholdAmber
           /\ selectedPreset.targetLraMin <= selectedPreset.targetLraMax

\* C34 witness: an LRA between the two thresholds of the selected preset gave
\* the status Reduced
C34_Witness ==
    /\ lastOp.op = "setCurrentProgram"
    /\ presetParam \in 0..(presetsSize - 1)
    /\ presetAt(presetParam).lraThresholdRed <= currentGlobalLRA
    /\ currentGlobalLRA < presetAt(presetParam).lraThresholdAmber
    /\ currentStatus = Reduced

C38_CounterBounded ==
    [][ /\ samplesProcessedSinceReset' # samplesProcessedSinceReset
            => \/ /\ samplesProcessedSinceReset' = 0
                  /\ lastOp'.op \in { "prepareToPlay", "resetLra",
                                      "presetChanged", "setStateInformation" }
               \/ /\ lastOp'.op = "processBlock"
                  /\ currentStatus = Measuring
                  /\ samplesProcessedSinceReset'
                        = samplesProcessedSinceReset + lastOp'.numSamples
        /\ (lastOp'.op = "processBlock" /\ currentStatus \in Settled)
            => samplesProcessedSinceReset' = samplesProcessedSinceReset
        /\ samplesProcessedSinceReset' >= 0
        /\ samplesProcessedSinceReset'
              <= minSamplesForReliableLRA(internalSampleRate')
                 + internalSampleRate' + MaxBlockSize ]_vars

\* C38 witness: the measurement ended with more samples counted than the
\* threshold
C38_Witness ==
    /\ lastOp.op = "processBlock"
    /\ currentStatus \in Settled
    /\ samplesProcessedSinceReset > minSamplesForReliableLRA(internalSampleRate)

\* C39: every processBlock call leaves the countdown between 0 and the sample
\* rate; it polls exactly when the countdown less the block's samples is 0 or
\* below, and then adds the sample rate once; the first block after
\* prepareToPlay or a reset polls.
C39_CountdownInRange ==
    [][ lastOp'.op = "processBlock"
            => /\ 0 <= samplesUntilLraUpdate'
               /\ samplesUntilLraUpdate' <= internalSampleRate'
               /\ lastOp'.fired
                    <=> samplesUntilLraUpdate - lastOp'.numSamples <= 0
               /\ samplesUntilLraUpdate'
                    = samplesUntilLraUpdate - lastOp'.numSamples
                      + (IF lastOp'.fired THEN internalSampleRate ELSE 0)
               /\ lastOp.op \in { "prepareToPlay", "resetLra", "presetChanged" }
                    => lastOp'.fired ]_vars

\* C39 witness: a block without samples polled, and the countdown is at the
\* sample rate
C39_Witness ==
    /\ lastOp.op = "processBlock"
    /\ lastOp.fired
    /\ lastOp.numSamples = 0
    /\ samplesUntilLraUpdate = internalSampleRate

\* The three lights: the status each one stands for
LightTargets == { Loss, Reduced, Ok }

\* The fill colours of a lit light
ActiveLightColours == { Palette_Ok, Palette_Reduced, Palette_Loss }

\* The colour a status is shown in
ExpectedStatusColour(status) ==
    IF status = Ok THEN Palette_Ok
    ELSE IF status = Reduced THEN Palette_Reduced
    ELSE Palette_Loss

\* C40: what was painted shows at most one lit light; painted for the status
\* Ok, Reduced or Loss, the light of that status has the status colour and
\* the other two the inactive colour; painted for Bypassed all three have the
\* bypassed colour and for Measuring all three the inactive colour.
C40_OneLightPerStatus ==
    LET p == trafficLight.painted
    IN  p.status # "-"
          => /\ Cardinality({ t \in LightTargets : p[t] \in ActiveLightColours }) <= 1
             /\ p.status \in Settled
                  => \A t \in LightTargets :
                        p[t] = IF t = p.status THEN ExpectedStatusColour(t)
                                               ELSE InactiveLightColour
             /\ p.status = Bypassed
                  => \A t \in LightTargets : p[t] = BypassedLightColour
             /\ p.status = Measuring
                  => \A t \in LightTargets : p[t] = InactiveLightColour
             /\ p.status \in DynamicsStatus

\* C40 witness: painted for the status Reduced, the middle light is lit and
\* the other two are not
C40_Witness ==
    /\ trafficLight.painted.status = Reduced
    /\ trafficLight.painted.Reduced = Palette_Reduced
    /\ trafficLight.painted.Loss = InactiveLightColour
    /\ trafficLight.painted.Ok = InactiveLightColour

\* C35: when a processBlock call has returned during which, after its poll,
\* a reset ran on the message thread, the status is Measuring, the reported
\* LRA and the lra parameter are 0 and the sample counter is at most the
\* block's sample count.
C35_ResetSurvivesBlock ==
    (audioThread.pc = "idle" /\ audioThread.resetAfterPoll)
        => /\ currentStatus = Measuring
           /\ currentGlobalLRA = 0
           /\ lraParam = 0
           /\ samplesProcessedSinceReset <= audioThread.numSamples

\* C36: every engine call of the audio thread is made on a live handle.
C36_EngineCallsOnLiveHandle ==
    audioThread.engineCall \in { "none", "live" }

=============================================================================
